---- MODULE Spec2Model ----
(***************************************************************************)
(* Model of dark.py: the Dark application object, its RPC command handler  *)
(* (/admin/api/rpc), the pickle snapshot "dark.graph" and the route        *)
(* registration helpers add_output / add_input.                            *)
(*                                                                         *)
(* dark.py imports the modules graph, datastore and fields; Graph, Node,   *)
(* Datastore and the field registry are modelled after sections 3 and 4 of *)
(* the specification (roles: plain, datastore, datasource, datasink).      *)
(***************************************************************************)
EXTENDS Integers, Sequences, FiniteSets, TLC

\* ------------------------------------------------------------------ bounds
MaxFaults == 1

\* ------------------------------------------------------- finite input sets
Names == {"a", "b"}
Null == "null"
\* the canvas positions that requests and callers use
Points == {<<0, 1>>, <<1, 1>>}
FieldNames == {"f", "g"}
RegisteredTypes == {"String"}
TypeNames == RegisteredTypes \cup {"Bogus"}
Commands == {"add_datastore", "add_datastore_field", "add_function_call",
             "update_position", "load_initial_graph", "frobnicate"}
Urls == {"/u"}
Verbs == {"GET"}

\* ------------------------------------------------------------ graph values
\* A Graph is a small heap of node objects (object id = position in heap)
\* plus the two name-keyed indices, kept in insertion order like a dict.
Node(name, role, x, y) ==
  [name |-> name, role |-> role, x |-> x, y |-> y, fields |-> <<>>]

Field(name, type) == [name |-> name, type |-> type]

EmptyGraph == [heap |-> <<>>, nodes |-> <<>>, datastores |-> <<>>]

\* dict lookup: the object id stored under key, 0 when the key is absent
Lookup(index, key) ==
  IF \E i \in 1..Len(index) : index[i].key = key
  THEN index[CHOOSE i \in 1..Len(index) : index[i].key = key].ref
  ELSE 0

HasKey(index, key) == Lookup(index, key) # 0

\* Graph.get_node: the node registered under name; absent (0) models the
\* UnknownNode failure, which the callers turn into an error.
get_node(G, name) == Lookup(G.nodes, name)

\* Graph._add (addNode): DuplicateName when the name exists, else register.
CanAdd(G, node) == ~HasKey(G.nodes, node.name)

_add(G, node) ==
  [G EXCEPT !.heap = Append(@, node),
            !.nodes = Append(@, [key |-> node.name, ref |-> Len(G.heap) + 1])]

\* Graph.add_datastore: addNode plus insertion into the datastore index.
add_datastore(G, ds) ==
  LET G1 == _add(G, ds)
  IN [G1 EXCEPT !.datastores =
        Append(@, [key |-> ds.name, ref |-> Len(G1.heap)])]

\* Datastore.add_field: DuplicateFieldName when the name exists, else append.
HasField(obj, fname) == \E i \in 1..Len(obj.fields) : obj.fields[i].name = fname

add_field(G, oid, field) ==
  [G EXCEPT !.heap[oid].fields = Append(@, field)]

\* fields registry: getattr(fields, typename)
IsFieldType(typename) == typename \in RegisteredTypes

\* Node.is_datasink / Node.is_datasource
is_datasink(node) == node.role = "datasink"
is_datasource(node) == node.role = "datasource"

\* Graph.to_frontend: every node with id/x/y/role, every datastore with its
\* ordered field list, and the cursor's name (Null when there is no cursor).
to_frontend(G, cursor) ==
  [nodes |-> [i \in 1..Len(G.nodes) |->
                LET o == G.heap[G.nodes[i].ref]
                IN [id |-> G.nodes[i].key, x |-> o.x, y |-> o.y, role |-> o.role]],
   datastores |-> [i \in 1..Len(G.datastores) |->
                LET o == G.heap[G.datastores[i].ref]
                IN [name |-> G.datastores[i].key, fields |-> o.fields]],
   cursor |-> IF cursor = 0 THEN Null ELSE G.heap[cursor].name]

\* ------------------------------------------------------------------ pickle
\* pickle.dump writes a stream: a protocol header, the node index, the
\* datastore index, and a final STOP.  An object is written in full the first
\* time it is met (PUT, entering the memo) and by memo reference afterwards
\* (GET), which is how shared objects stay shared.
NoObj == Node("", "", 0, 0)

Tok(op, key, memo, obj) == [op |-> op, key |-> key, memo |-> memo, obj |-> obj]

\* the object ids met while pickling the two indices, in order
Refs(G) == [i \in 1..(Len(G.nodes) + Len(G.datastores)) |->
              IF i <= Len(G.nodes) THEN G.nodes[i].ref
              ELSE G.datastores[i - Len(G.nodes)].ref]

FirstVisit(G, i) == \A j \in 1..(i - 1) : Refs(G)[j] # Refs(G)[i]

\* memo number of the object met at position i: its rank among first visits
MemoOf(G, i) ==
  LET first == CHOOSE j \in 1..i : Refs(G)[j] = Refs(G)[i] /\ FirstVisit(G, j)
  IN Cardinality({j \in 1..first : FirstVisit(G, j)})

Entry(G, i, key) ==
  IF FirstVisit(G, i) THEN Tok("PUT", key, MemoOf(G, i), G.heap[Refs(G)[i]])
  ELSE Tok("GET", key, MemoOf(G, i), NoObj)

\* a dump that keeps no memo: an object met again is written out again
DumpNoMemo(G) ==
  <<Tok("PROTO", "", 0, NoObj)>>
  \o [i \in 1..Len(G.nodes) |-> Tok("PUT", G.nodes[i].key, i, G.heap[G.nodes[i].ref])]
  \o <<Tok("MARK", "", 0, NoObj)>>
  \o [i \in 1..Len(G.datastores) |->
        Tok("PUT", G.datastores[i].key, Len(G.nodes) + i, G.heap[G.datastores[i].ref])]
  \o <<Tok("STOP", "", 0, NoObj)>>

\* a dump that writes each object's field list last field first
DumpFieldsReversed(G) ==
  LET flip(o) == [o EXCEPT !.fields =
                    [k \in 1..Len(o.fields) |-> o.fields[Len(o.fields) + 1 - k]]]
      turned == [G EXCEPT !.heap = [i \in 1..Len(G.heap) |-> flip(G.heap[i])]]
  IN <<Tok("PROTO", "", 0, NoObj)>>
     \o [i \in 1..Len(G.nodes) |-> Entry(turned, i, G.nodes[i].key)]
     \o <<Tok("MARK", "", 0, NoObj)>>
     \o [i \in 1..Len(G.datastores) |->
           Entry(turned, Len(G.nodes) + i, G.datastores[i].key)]
     \o <<Tok("STOP", "", 0, NoObj)>>

Dump(G) ==
  <<Tok("PROTO", "", 0, NoObj)>>
  \o [i \in 1..Len(G.nodes) |-> Entry(G, i, G.nodes[i].key)]
  \o <<Tok("MARK", "", 0, NoObj)>>
  \o [i \in 1..Len(G.datastores) |->
        Entry(G, Len(G.nodes) + i, G.datastores[i].key)]
  \o <<Tok("STOP", "", 0, NoObj)>>

\* pickle.load succeeds only on a complete stream (header first, STOP last).
Loadable(data) ==
  /\ Len(data) >= 3
  /\ data[1].op = "PROTO"
  /\ data[Len(data)].op = "STOP"
  /\ Cardinality({i \in 1..Len(data) : data[i].op = "MARK"}) = 1
  /\ \A i \in 2..(Len(data) - 1) : data[i].op \in {"PUT", "GET", "MARK"}

TokensOf(data, lo, hi, ops) ==
  SelectSeq(SubSeq(data, lo, hi), LAMBDA t : t.op \in ops)

\* a load that rebuilds the node index in the opposite order
LoadReversed(data) ==
  LET mark == CHOOSE i \in 1..Len(data) : data[i].op = "MARK"
      puts == TokensOf(data, 1, Len(data), {"PUT"})
      idx(lo, hi) == LET es == TokensOf(data, lo, hi, {"PUT", "GET"})
                     IN [i \in 1..Len(es) |-> [key |-> es[i].key, ref |-> es[i].memo]]
      ns == idx(2, mark - 1)
  IN [heap |-> [i \in 1..Len(puts) |-> puts[i].obj],
      nodes |-> [i \in 1..Len(ns) |-> ns[Len(ns) + 1 - i]],
      datastores |-> idx(mark + 1, Len(data) - 1)]

Load(data) ==
  LET mark == CHOOSE i \in 1..Len(data) : data[i].op = "MARK"
      puts == TokensOf(data, 1, Len(data), {"PUT"})
      idx(lo, hi) == LET es == TokensOf(data, lo, hi, {"PUT", "GET"})
                     IN [i \in 1..Len(es) |-> [key |-> es[i].key, ref |-> es[i].memo]]
  IN [heap |-> [i \in 1..Len(puts) |-> puts[i].obj],
      nodes |-> idx(2, mark - 1),
      datastores |-> idx(mark + 1, Len(data) - 1)]

\* ---------------------------------------------------------------- requests
\* The JSON body {"cursor": .., "command": .., "args": {..}}.  args is a
\* mapping: has is its key set, the other fields are the values of the keys
\* present (a key that is absent carries the default and is never read).
Args(has, name, x, y, id, type) ==
  [has |-> has, name |-> name, x |-> x, y |-> y, id |-> id, type |-> type]

NoArgs == Args({}, "", 0, 0, "", "")

\* The mappings sent with each command: every full mapping, and mappings
\* with one key left out.
ArgsFor(command) ==
  CASE command \in {"add_datastore", "add_function_call"} ->
         {Args({"name", "x", "y"}, n, p[1], p[2], "", "") : n \in Names, p \in Points}
         \cup {Args({"name", "x"}, "b", 1, 0, "", ""), Args({"x", "y"}, "", 1, 1, "", "")}
    [] command = "add_datastore_field" ->
         {Args({"name", "type"}, n, 0, 0, "", t) : n \in FieldNames, t \in TypeNames}
         \cup {Args({"name"}, "f", 0, 0, "", ""), Args({"type"}, "", 0, 0, "", "String")}
    [] command = "update_position" ->
         {Args({"id", "x", "y"}, "", p[1], p[2], id, "") : id \in Names, p \in Points}
         \cup {Args({"id", "x"}, "", p[1], 0, id, "") : id \in Names, p \in Points}
         \cup {Args({"id", "y"}, "", 0, 1, "a", ""), Args({"x", "y"}, "", 1, 1, "", "")}
    [] OTHER -> {NoArgs}

\* values of absent keys are normalised to the default so that two mappings
\* with the same content are the same request
Normal(a) ==
  Args(a.has,
       IF "name" \in a.has THEN a.name ELSE "",
       IF "x" \in a.has THEN a.x ELSE 0,
       IF "y" \in a.has THEN a.y ELSE 0,
       IF "id" \in a.has THEN a.id ELSE "",
       IF "type" \in a.has THEN a.type ELSE "")

Requests ==
  UNION {{[cursor |-> c, command |-> cmd, args |-> Normal(a)] :
            c \in Names \cup {Null}, a \in ArgsFor(cmd)} : cmd \in Commands}

NoReq == [cursor |-> Null, command |-> "", args |-> NoArgs]

\* ------------------------------------------------------- command interpreter
\* Lines 37-72 of fn, statement by statement.  The result carries the error
\* raised ("ok" when none), the Graph object G as the statements executed so
\* far have left it, and the local variable cursor (an object id, 0 = None).
Res(err, G, cursor) == [err |-> err, G |-> G, cursor |-> cursor]

\* the two coordinates taken from the wrong keys
CmdAddDatastoreSwapped(G, cur, args) ==
  IF ~({"name", "x", "y"} \subseteq args.has) THEN Res("MalformedArgs", G, cur)
  ELSE LET ds == Node(args.name, "datastore", args.y, args.x)
       IN IF ~CanAdd(G, ds) THEN Res("DuplicateName", G, cur)
          ELSE Res("ok", add_datastore(G, ds), Len(G.heap) + 1)

CmdAddDatastore(G, cur, args) ==
  IF ~({"name", "x", "y"} \subseteq args.has) THEN Res("MalformedArgs", G, cur)
  ELSE LET ds == Node(args.name, "datastore", args.x, args.y)
       IN IF ~CanAdd(G, ds) THEN Res("DuplicateName", G, cur)
          ELSE Res("ok", add_datastore(G, ds), Len(G.heap) + 1)

\* the field attached to the cursor node, whatever its role
CmdAddDatastoreFieldAnyNode(G, cursorname, cur, args) ==
  IF ~({"name", "type"} \subseteq args.has) THEN Res("MalformedArgs", G, cur)
  ELSE IF ~IsFieldType(args.type) THEN Res("UnknownFieldType", G, cur)
  ELSE IF HasField(G.heap[cur], args.name) THEN Res("DuplicateFieldName", G, cur)
  ELSE Res("ok", add_field(G, cur, Field(args.name, args.type)), cur)

\* the field appended without looking at the names already there
CmdAddDatastoreFieldNoDupCheck(G, cursorname, cur, args) ==
  LET ds == Lookup(G.datastores, cursorname)
  IN IF ds = 0 THEN Res("NotADatastore", G, cur)
     ELSE IF ~({"name", "type"} \subseteq args.has) THEN Res("MalformedArgs", G, cur)
     ELSE IF ~IsFieldType(args.type) THEN Res("UnknownFieldType", G, cur)
     ELSE Res("ok", add_field(G, ds, Field(args.name, args.type)), ds)

CmdAddDatastoreField(G, cursorname, cur, args) ==
  LET ds == Lookup(G.datastores, cursorname)
  IN IF ds = 0 THEN Res("NotADatastore", G, cur)
     ELSE IF ~({"name", "type"} \subseteq args.has) THEN Res("MalformedArgs", G, cur)
     ELSE IF ~IsFieldType(args.type) THEN Res("UnknownFieldType", G, cur)
     ELSE IF HasField(G.heap[ds], args.name) THEN Res("DuplicateFieldName", G, cur)
     ELSE Res("ok", add_field(G, ds, Field(args.name, args.type)), ds)

\* the new node stored under its name whether or not the name is taken
CmdAddFunctionCallOverwrite(G, cur, args) ==
  IF ~({"name", "x", "y"} \subseteq args.has) THEN Res("MalformedArgs", G, cur)
  ELSE LET node == Node(args.name, "plain", args.x, args.y)
           new == Len(G.heap) + 1
       IN IF CanAdd(G, node) THEN Res("ok", _add(G, node), new)
          ELSE Res("ok",
                   [G EXCEPT !.heap = Append(@, node),
                             !.nodes = [i \in 1..Len(G.nodes) |->
                                          IF G.nodes[i].key = node.name
                                          THEN [key |-> node.name, ref |-> new]
                                          ELSE G.nodes[i]]],
                   new)

CmdAddFunctionCall(G, cur, args) ==
  IF ~({"name", "x", "y"} \subseteq args.has) THEN Res("MalformedArgs", G, cur)
  ELSE LET node == Node(args.name, "plain", args.x, args.y)
       IN IF ~CanAdd(G, node) THEN Res("DuplicateName", G, cur)
          ELSE Res("ok", _add(G, node), Len(G.heap) + 1)

\* an unknown id gets a node of its own instead of raising
CmdUpdatePositionCreates(G, cur, args) ==
  IF "id" \notin args.has THEN Res("MalformedArgs", G, cur)
  ELSE LET G0 == IF get_node(G, args.id) = 0
                   THEN _add(G, Node(args.id, "plain", 0, 0)) ELSE G
           node == get_node(G0, args.id)
       IN IF "x" \notin args.has THEN Res("MalformedArgs", G0, cur)
          ELSE LET G1 == [G0 EXCEPT !.heap[node].x = args.x]
               IN IF "y" \notin args.has THEN Res("MalformedArgs", G1, cur)
                  ELSE Res("ok", [G1 EXCEPT !.heap[node].y = args.y], cur)

\* node.x is assigned before args["y"] is read
CmdUpdatePosition(G, cur, args) ==
  IF "id" \notin args.has THEN Res("MalformedArgs", G, cur)
  ELSE LET node == get_node(G, args.id)
       IN IF node = 0 THEN Res("UnknownNode", G, cur)
          ELSE IF "x" \notin args.has THEN Res("MalformedArgs", G, cur)
          ELSE LET G1 == [G EXCEPT !.heap[node].x = args.x]
               IN IF "y" \notin args.has THEN Res("MalformedArgs", G1, cur)
                  ELSE Res("ok", [G1 EXCEPT !.heap[node].y = args.y], cur)

Interp(G, r) ==
  LET cur == get_node(G, r.cursor)
  IN IF cur = 0 THEN Res("UnknownNode", G, 0)
     ELSE CASE r.command = "add_datastore" -> CmdAddDatastore(G, cur, r.args)
            [] r.command = "add_datastore_field" ->
                 CmdAddDatastoreField(G, r.cursor, cur, r.args)
            [] r.command = "add_function_call" -> CmdAddFunctionCall(G, cur, r.args)
            [] r.command = "update_position" -> CmdUpdatePosition(G, cur, r.args)
            [] r.command = "load_initial_graph" -> Res("ok", G, 0)
            [] OTHER -> Res("InvalidCommand", G, cur)

\* -------------------------------------------------------------------- state
VARIABLES
  status,     \* "up": the process runs; "down": Dark.__init__ raised
  graph,      \* the Graph object self.graph refers to
  url_map,    \* self.url_map: the set of rules
  file,       \* the file "dark.graph"
  pc,         \* where the RPC handler fn stands
  req,        \* the request fn is handling
  G,          \* fn's local G
  cursor,     \* fn's local cursor (object id in G, 0 = None)
  response,   \* fn's local response
  exc,        \* the exception propagating out of fn ("" = none)
  pre,        \* graph and file as they were when fn took the request
  out,        \* what the last finished operation handed to its caller
  committed,  \* the Graph of the last snapshot written in full
  faults,     \* how many dumps have failed so far
  other,      \* the server's second worker: its handler's locals while it waits
  tid         \* the worker that is running (its locals are pc .. pre)

vars == <<status, graph, url_map, file, pc, req, G, cursor, response, exc,
          pre, out, committed, faults, other, tid>>

NoFile == [exists |-> FALSE, data |-> <<>>]
FileOf(data) == [exists |-> TRUE, data |-> data]

Rule(url, verb, endpoint) == [url |-> url, verb |-> verb, endpoint |-> endpoint]
BaseRoutes == {Rule("/admin/ui", "*", "ui"), Rule("/admin/api/rpc", "*", "fn")}

NoResponse == to_frontend(EmptyGraph, 0)
NoPre == [graph |-> EmptyGraph, file |-> NoFile]
Out(op, kind, body) == [op |-> op, kind |-> kind, body |-> body]
NoOut == Out("", "pending", NoResponse)
NoCommit == [some |-> FALSE, g |-> EmptyGraph]

\* fn holds no request
Idle ==
  /\ pc' = "idle" /\ req' = NoReq /\ G' = EmptyGraph /\ cursor' = 0
  /\ response' = NoResponse /\ exc' = "" /\ pre' = NoPre

\* the locals of a handler, and what its worker last handed to a client
Worker(p, r, g, c, resp, e, pr, last) ==
  [pc |-> p, req |-> r, G |-> g, cursor |-> c, response |-> resp, exc |-> e,
   pre |-> pr, last |-> last]

\* a worker that has handled nothing yet
NoWorker == Worker("idle", NoReq, EmptyGraph, 0, NoResponse, "", NoPre, "none")

\* Dark.__init__: an empty Graph, replaced by the unpickled file if it exists;
\* an exception from pickle.load leaves the process not started.
Boot ==
  /\ url_map' = BaseRoutes
  /\ Idle
  /\ other' = NoWorker /\ tid' = 1
  /\ IF ~file.exists
       THEN status' = "up" /\ graph' = EmptyGraph /\ out' = Out("init", "ok", NoResponse)
     ELSE IF Loadable(file.data)
       THEN status' = "up" /\ graph' = Load(file.data)
            /\ out' = Out("init", "ok", NoResponse)
     ELSE status' = "down" /\ graph' = EmptyGraph
          /\ out' = Out("init", "error", NoResponse)

Init ==
  /\ status = "up" /\ graph = EmptyGraph /\ url_map = BaseRoutes
  /\ file = NoFile
  /\ pc = "idle" /\ req = NoReq /\ G = EmptyGraph /\ cursor = 0
  /\ response = NoResponse /\ exc = "" /\ pre = NoPre
  /\ out = Out("init", "ok", NoResponse)
  /\ committed = NoCommit
  /\ faults = 0
  /\ other = NoWorker /\ tid = 1

\* the process is stopped (at any point) and started again
Restart ==
  /\ Boot
  /\ UNCHANGED <<file, committed, faults>>

\* fn with the dump moved into a finally clause: it runs on failure too
ReceiveDumpAlways(r) ==
  /\ status = "up" /\ pc = "idle"
  /\ LET res == Interp(graph, r)
     IN /\ graph' = res.G
        /\ G' = res.G
        /\ cursor' = res.cursor
        /\ exc' = IF res.err = "ok" THEN "" ELSE res.err
        /\ pc' = IF res.err = "ok" THEN "write" ELSE "raise"
        /\ response' = IF res.err = "ok" THEN to_frontend(res.G, res.cursor)
                       ELSE NoResponse
  /\ req' = r
  /\ pre' = [graph |-> graph, file |-> file]
  /\ out' = NoOut
  /\ file' = IF Interp(graph, r).err = "ok" THEN file
             ELSE FileOf(Dump(Interp(graph, r).G))
  /\ UNCHANGED <<other, tid, status, url_map, committed, faults>>

\* fn, lines 29-76: parse, resolve the cursor, run the command, project
Receive(r) ==
  /\ status = "up" /\ pc = "idle"
  /\ LET res == Interp(graph, r)
     IN /\ graph' = res.G
        /\ G' = res.G
        /\ cursor' = res.cursor
        /\ exc' = IF res.err = "ok" THEN "" ELSE res.err
        /\ pc' = IF res.err = "ok" THEN "write" ELSE "raise"
        /\ response' = IF res.err = "ok" THEN to_frontend(res.G, res.cursor)
                       ELSE NoResponse
  /\ req' = r
  /\ pre' = [graph |-> graph, file |-> file]
  /\ out' = NoOut
  /\ UNCHANGED <<other, tid, status, url_map, file, committed, faults>>

\* line 79 left out: nothing is written
WriteSkipped ==
  /\ status = "up" /\ pc = "write"
  /\ pc' = "read"
  /\ UNCHANGED <<other, tid, status, graph, url_map, file, req, G, cursor, response, exc, pre,
                 out, committed, faults>>

\* fn, line 79, the dump runs to its end
Write ==
  /\ status = "up" /\ pc = "write"
  /\ file' = FileOf(Dump(G))
  /\ committed' = [some |-> TRUE, g |-> G]
  /\ pc' = "read"
  /\ UNCHANGED <<other, tid, status, graph, url_map, req, G, cursor, response, exc, pre, out, faults>>

\* what a dump that raises can leave behind: open() failed and the file is
\* as it was, or open() truncated it and only a strict prefix was written
\* (nothing, or no more than the protocol header)
Truncations(data) ==
  {SubSeq(data, 1, n) : n \in {0, 1}}

WriteFail ==
  /\ status = "up" /\ pc = "write"
  /\ faults < MaxFaults
  /\ faults' = faults + 1
  /\ file' \in {file} \cup {FileOf(d) : d \in Truncations(Dump(G))}
  /\ exc' = "PersistenceError"
  /\ pc' = "raise"
  /\ UNCHANGED <<other, tid, status, graph, url_map, req, G, cursor, response, pre, out, committed>>

\* fn, lines 80-82: read the snapshot back, replace self.graph, return
ReadBack ==
  /\ status = "up" /\ pc = "read"
  /\ IF file.exists /\ Loadable(file.data)
       THEN /\ graph' = Load(file.data)
            /\ out' = Out("fn", "ok", response)
            /\ Idle
       ELSE /\ graph' = graph /\ pc' = "raise" /\ exc' = "PersistenceError"
            /\ UNCHANGED <<req, G, cursor, response, pre, out>>
  /\ UNCHANGED <<other, tid, status, url_map, file, committed, faults>>

\* the exception leaves fn: the caller gets a failure
Raise ==
  /\ status = "up" /\ pc = "raise"
  /\ out' = Out("fn", "error", NoResponse)
  /\ Idle
  /\ UNCHANGED <<other, tid, status, graph, url_map, file, committed, faults>>

\* Dark.add_output, lines 99-107
add_output(node, verb, url) ==
  /\ status = "up" /\ pc = "idle"
  /\ IF ~CanAdd(graph, node)
       THEN /\ out' = Out("add_output", "error", NoResponse)
            /\ UNCHANGED <<graph, url_map>>
     ELSE /\ graph' = _add(graph, node)
          /\ IF ~is_datasink(node)
               THEN /\ out' = Out("add_output", "error", NoResponse)
                    /\ UNCHANGED url_map
               ELSE /\ out' = Out("add_output", "ok", NoResponse)
                    /\ url_map' = url_map \cup {Rule(url, verb, node.name)}
  /\ UNCHANGED <<other, tid, status, file, pc, req, G, cursor, response, exc, pre, committed, faults>>

\* Dark.add_input, lines 109-118
add_input(node, verb, url, redirect_url) ==
  /\ status = "up" /\ pc = "idle"
  /\ IF ~CanAdd(graph, node)
       THEN /\ out' = Out("add_input", "error", NoResponse)
            /\ UNCHANGED <<graph, url_map>>
     ELSE /\ graph' = _add(graph, node)
          /\ IF ~is_datasource(node)
               THEN /\ out' = Out("add_input", "error", NoResponse)
                    /\ UNCHANGED url_map
               ELSE /\ out' = Out("add_input", "ok", NoResponse)
                    /\ url_map' = url_map \cup {Rule(url, verb, node.name)}
  /\ UNCHANGED <<other, tid, status, file, pc, req, G, cursor, response, exc, pre, committed, faults>>

\* the nodes application code hands to add_output / add_input
CallerNames == {"a"}
CallerNodes ==
  {Node(n, r, p[1], p[2]) :
     n \in CallerNames, r \in {"plain", "datasource", "datasink"}, p \in {<<0, 1>>}}

Next ==
  \/ \E r \in Requests : Receive(r)
  \/ Write
  \/ WriteFail
  \/ ReadBack
  \/ Raise
  \/ Restart
  \/ \E n \in CallerNodes, v \in Verbs, u \in Urls : add_output(n, v, u)
  \/ \E n \in CallerNodes, v \in Verbs, u \in Urls : add_input(n, v, u, "/")

Spec == Init /\ [][Next]_vars

\* ------------------------------------------- a datastore with three fields
\* The same server driven by requests that can give one datastore three
\* fields: node "a" comes from add_output / add_input, datastore "b" from
\* add_datastore, and the field commands draw on a third field name.
MoreFieldNames == FieldNames \cup {"h"}

FieldRequests ==
  {[cursor |-> "a", command |-> cmd, args |-> Normal(Args({"name", "x", "y"}, n, 0, 1, "", ""))] :
     cmd \in {"add_datastore", "add_function_call"}, n \in Names}
  \cup {[cursor |-> c, command |-> "add_datastore_field",
         args |-> Normal(Args({"name", "type"}, n, 0, 0, "", t))] :
          c \in Names, n \in MoreFieldNames, t \in TypeNames}
  \cup {[cursor |-> "a", command |-> "update_position",
         args |-> Normal(Args({"id", "x", "y"}, "", p[1], p[2], id, ""))] :
          id \in Names, p \in Points}
  \cup {[cursor |-> "a", command |-> "update_position",
         args |-> Normal(Args({"id", "x"}, "", 1, 0, id, ""))] : id \in Names}
  \cup {[cursor |-> "a", command |-> cmd, args |-> NoArgs] :
          cmd \in {"load_initial_graph", "frobnicate"}}

NextFields ==
  \/ \E r \in FieldRequests : Receive(r)
  \/ Write
  \/ WriteFail
  \/ ReadBack
  \/ Raise
  \/ Restart
  \/ \E n \in CallerNodes, v \in Verbs, u \in Urls : add_output(n, v, u)
  \/ \E n \in CallerNodes, v \in Verbs, u \in Urls : add_input(n, v, u, "/")

SpecFields == Init /\ [][NextFields]_vars

\* ------------------------------------------------ the server's two workers
\* a server that hands the next connection to its other worker whenever it
\* likes, also while the running worker's handler has not returned
DispatchPreemptive ==
  /\ status = "up"
  /\ tid' = IF tid = 1 THEN 2 ELSE 1
  /\ other' = Worker(pc, req, G, cursor, response, exc, pre,
                     IF out.op = "fn" THEN out.kind ELSE "none")
  /\ pc' = other.pc /\ req' = other.req /\ G' = other.G /\ cursor' = other.cursor
  /\ response' = other.response /\ exc' = other.exc /\ pre' = other.pre
  /\ out' = Out("accept", "ok", NoResponse)
  /\ UNCHANGED <<status, graph, url_map, file, committed, faults>>

\* server.Server takes the next connection on its other worker.  It handles
\* one request at a time: the running worker is left only when its handler has
\* returned.  The worker left behind keeps its locals and what it last handed to
\* a client; the worker taken up continues with its own locals.
Dispatch ==
  /\ status = "up"
  /\ pc = "idle"
  /\ tid' = IF tid = 1 THEN 2 ELSE 1
  /\ other' = Worker(pc, req, G, cursor, response, exc, pre,
                     IF out.op = "fn" THEN out.kind ELSE "none")
  /\ pc' = other.pc /\ req' = other.req /\ G' = other.G /\ cursor' = other.cursor
  /\ response' = other.response /\ exc' = other.exc /\ pre' = other.pre
  /\ out' = Out("accept", "ok", NoResponse)
  /\ UNCHANGED <<status, graph, url_map, file, committed, faults>>

\* the mutating commands clients send to the two workers
ServerRequests ==
  {[cursor |-> "a", command |-> "add_datastore",
    args |-> Normal(Args({"name", "x", "y"}, n, 0, 1, "", ""))] : n \in Names}
  \cup {[cursor |-> c, command |-> "add_datastore_field",
         args |-> Normal(Args({"name", "type"}, "f", 0, 0, "", "String"))] : c \in Names}
  \cup {[cursor |-> "a", command |-> "update_position",
         args |-> Normal(Args({"id", "x", "y"}, "", 1, 1, id, ""))] : id \in Names}

NextServer ==
  \/ \E r \in ServerRequests : Receive(r)
  \/ Write
  \/ WriteFail
  \/ ReadBack
  \/ Raise
  \/ Restart
  \/ \E n \in CallerNodes, v \in Verbs, u \in Urls : add_output(n, v, u)
  \/ \E n \in CallerNodes, v \in Verbs, u \in Urls : add_input(n, v, u, "/")
  \/ Dispatch

SpecServer == Init /\ [][NextServer]_vars

\* ------------------------------------------------------------------- claims
CommandErrors ==
  {"UnknownNode", "MalformedArgs", "NotADatastore", "UnknownFieldType",
   "DuplicateFieldName", "DuplicateName", "InvalidCommand"}

KnownCommands ==
  {"add_datastore", "add_datastore_field", "add_function_call",
   "update_position", "load_initial_graph"}

\* fn has just run the command of req: it goes on to the dump, or the
\* command raised
CommandFailed == pc = "raise" /\ exc \in CommandErrors
CommandDone == pc = "write" \/ CommandFailed

\* C1: a command that fails leaves the in-memory Graph as it was before the
\* request (indices, positions and field lists).
C1_FailedCommandLeavesGraph == CommandFailed => graph = pre.graph

\* C2: a command that fails at the command level does not touch the
\* snapshot file.
C2_FailedCommandNoSnapshot == CommandFailed => file = pre.file

C2_Witness ==
  /\ CommandFailed /\ req.command = "add_datastore_field"
  /\ pre.file.exists /\ Len(graph.nodes) = 2

\* C3: round trip: once a command has succeeded and the snapshot is written,
\* loading the snapshot gives the Graph the commands built in memory.
C3_RoundTrip ==
  pc = "read" => /\ file.exists /\ Loadable(file.data)
                 /\ Load(file.data) = G

C3_Witness ==
  /\ pc = "read" /\ Len(G.nodes) = 2 /\ Len(G.datastores) = 1
  /\ Len(G.heap[2].fields) = 2 /\ G.heap[1].x = 1

\* C4: commit ordering: the dump sees the mutated and projected Graph, the
\* read-back sees the finished dump, no response is out before both, and a
\* success response is returned only with the mutation in the snapshot and
\* self.graph replaced by the read-back copy.
C4_CommitOrder ==
  /\ pc = "write" => /\ graph = G /\ response = to_frontend(G, cursor)
                     /\ out = NoOut
  /\ pc = "read" => /\ file = FileOf(Dump(G)) /\ response = to_frontend(G, cursor)
                    /\ out = NoOut
  /\ (out.op = "fn" /\ out.kind = "ok") =>
        /\ pc = "idle" /\ file.exists /\ Loadable(file.data)
        /\ graph = Load(file.data)
        /\ out.body = to_frontend(graph, get_node(graph, out.body.cursor))

C4_Witness ==
  /\ out.op = "fn" /\ out.kind = "ok" /\ out.body.cursor = "b"
  /\ Len(graph.datastores) = 1

\* C5: after a start of the process the Graph is the one of the last
\* snapshot written in full (the empty Graph when there is none), and the
\* process is up.
C5_StartFromLastCommit ==
  out.op = "init" =>
     /\ status = "up"
     /\ graph = IF committed.some THEN committed.g ELSE EmptyGraph

\* C6: add_datastore and add_function_call with a fresh name succeed whatever
\* the request's cursor is, and the resulting cursor is the new node.
Creating(r) ==
  /\ r.command \in {"add_datastore", "add_function_call"}
  /\ r.args.has = {"name", "x", "y"}

C6_CreateIgnoresCursor ==
  (CommandDone /\ Creating(req) /\ ~HasKey(pre.graph.nodes, req.args.name)) =>
     /\ pc = "write"
     /\ cursor # 0
     /\ cursor = get_node(G, req.args.name)

\* C7: an unrecognized command fails with InvalidCommand whatever the cursor
\* is, and leaves the Graph unmodified.
C7_InvalidCommand ==
  (CommandDone /\ req.command \notin KnownCommands) =>
     /\ pc = "raise" /\ exc = "InvalidCommand"
     /\ graph = pre.graph

\* C8: after a successful update_position the cursor handed to to_frontend is
\* the node named by args.id.
C8_UpdateCursor ==
  (pc = "write" /\ req.command = "update_position") =>
     /\ cursor = get_node(G, req.args.id)
     /\ response.cursor = req.args.id

\* C9: after a successful add_datastore the new Datastore is in both indices
\* as one object, has no fields and the position asked for, and every node
\* that existed before is as it was.
C9_AddDatastore ==
  (pc = "write" /\ req.command = "add_datastore") =>
     LET d == Lookup(G.datastores, req.args.name)
         old == pre.graph
     IN /\ d # 0 /\ d = Lookup(G.nodes, req.args.name)
        /\ G.heap[d] = Node(req.args.name, "datastore", req.args.x, req.args.y)
        /\ G.heap[d].fields = <<>>
        /\ SubSeq(G.heap, 1, Len(old.heap)) = old.heap
        /\ SubSeq(G.nodes, 1, Len(old.nodes)) = old.nodes
        /\ Len(G.nodes) = Len(old.nodes) + 1
        /\ SubSeq(G.datastores, 1, Len(old.datastores)) = old.datastores
        /\ Len(G.datastores) = Len(old.datastores) + 1

C9_Witness ==
  /\ pc = "write" /\ req.command = "add_datastore" /\ req.args.x = 0
  /\ Len(pre.graph.nodes) = 1 /\ Len(G.datastores) = 1

\* C10: add_datastore_field with a cursor naming a node that is no Datastore
\* fails with NotADatastore and leaves the Graph as it was.
CursorIsPlainNode ==
  /\ get_node(pre.graph, req.cursor) # 0
  /\ pre.graph.heap[get_node(pre.graph, req.cursor)].role # "datastore"

C10_FieldOnPlainNode ==
  (CommandDone /\ req.command = "add_datastore_field" /\ CursorIsPlainNode) =>
     /\ pc = "raise" /\ exc = "NotADatastore"
     /\ graph = pre.graph

C10_Witness ==
  /\ CommandFailed /\ req.command = "add_datastore_field" /\ CursorIsPlainNode
  /\ req.args.has = {"name", "type"} /\ req.args.type = "String"
  /\ pre.graph.heap[get_node(pre.graph, req.cursor)].role = "plain"
  /\ Len(pre.graph.datastores) = 1


\* C11: update_position with an id that is not in the Graph fails with
\* UnknownNode and leaves the Graph unmodified: no node appears under that
\* id and no position changes.
C11_UpdateUnknownId ==
  (CommandDone /\ req.command = "update_position" /\ "id" \in req.args.has
     /\ ~HasKey(pre.graph.nodes, req.args.id)) =>
     /\ pc = "raise" /\ exc = "UnknownNode"
     /\ graph = pre.graph
     /\ ~HasKey(graph.nodes, req.args.id)

C11_Witness ==
  /\ CommandFailed /\ req.command = "update_position"
  /\ req.args.has = {"id", "x", "y"} /\ req.args.id = "b" /\ req.cursor = "a"
  /\ HasKey(pre.graph.nodes, "a") /\ ~HasKey(pre.graph.nodes, "b")
  /\ pre.graph.heap[1].x # req.args.x


\* C12: no Datastore ever holds two Fields of one name: add_datastore_field
\* with a name the Datastore does not have appends the field, with a name it
\* has fails with DuplicateFieldName and leaves the field list as it was.
NoDuplicateFields(g) ==
  \A o \in 1..Len(g.heap) : \A i, j \in 1..Len(g.heap[o].fields) :
     g.heap[o].fields[i].name = g.heap[o].fields[j].name => i = j

C12_UniqueFieldNames ==
  /\ NoDuplicateFields(graph)
  /\ (CommandDone /\ req.command = "add_datastore_field"
        /\ HasKey(pre.graph.datastores, req.cursor)
        /\ req.args.has = {"name", "type"} /\ IsFieldType(req.args.type)) =>
       LET ds == Lookup(pre.graph.datastores, req.cursor)
           old == pre.graph.heap[ds].fields
       IN IF HasField(pre.graph.heap[ds], req.args.name)
            THEN /\ pc = "raise" /\ exc = "DuplicateFieldName"
                 /\ graph = pre.graph
            ELSE /\ pc = "write"
                 /\ G.heap[ds].fields = Append(old, Field(req.args.name, req.args.type))

C12_Witness ==
  /\ CommandFailed /\ exc = "DuplicateFieldName"
  /\ req.args.name = "f"
  /\ graph.heap[Lookup(graph.datastores, req.cursor)].fields
       = <<Field("f", "String"), Field("g", "String")>>

\* C13: every name of the datastore index is in the node index and both
\* resolve it to the same object, in self.graph and in fn's G, also after an
\* add_function_call under the name of a Datastore and after the read-back.
IndexConsistent(g) ==
  \A i \in 1..Len(g.datastores) :
     /\ g.datastores[i].ref \in 1..Len(g.heap)
     /\ Lookup(g.nodes, g.datastores[i].key) = g.datastores[i].ref

C13_DatastoreIndexInNodeIndex == IndexConsistent(graph) /\ IndexConsistent(G)

C13_Witness ==
  /\ out.op = "fn" /\ out.kind = "ok" /\ pc = "idle"
  /\ Len(graph.datastores) = 1 /\ Len(graph.nodes) = 2
  /\ Len(graph.heap[2].fields) = 1

\* C14: add_datastore and add_function_call with a name that is in the node
\* index fail with DuplicateName, and the node of that name is as it was.
C14_DuplicateName ==
  (CommandDone /\ Creating(req) /\ HasKey(pre.graph.nodes, req.args.name)) =>
     /\ pc = "raise" /\ exc = "DuplicateName"
     /\ graph = pre.graph


\* C15: load_initial_graph succeeds for every cursor value and every Graph,
\* leaves the Graph as it was and hands to_frontend no cursor.
C15_LoadInitialGraph ==
  (CommandDone /\ req.command = "load_initial_graph") =>
     /\ pc = "write"
     /\ response.cursor = Null
     /\ graph = pre.graph

\* C16: when the last thing that happened is a load_initial_graph that
\* returned a response (the only command whose response has no cursor) and
\* the next request is a load_initial_graph that gets as far as a response,
\* the two responses are the same, the read-back in between notwithstanding.
C16_LoadTwice ==
  [][(/\ pc = "idle" /\ out.op = "fn" /\ out.kind = "ok" /\ out.body.cursor = Null
      /\ pc' = "write" /\ req'.command = "load_initial_graph")
       => response' = out.body]_vars

C16_Witness ==
  /\ pc = "idle" /\ status = "up"
  /\ out.op = "fn" /\ out.kind = "ok" /\ out.body.cursor = Null
  /\ Len(graph.nodes) = 2 /\ Len(graph.datastores) = 1
  /\ Len(graph.heap[2].fields) = 2
  /\ out.body = to_frontend(graph, 0)

\* C18: a dump that fails leaves the mutation in memory, self.graph not
\* replaced and no success response; and it is the only way a request that
\* found memory and snapshot equal leaves them different.
InSync(g, f) == f.exists /\ Loadable(f.data) /\ Load(f.data) = g

C18_WriteFailureOnlyGap ==
  /\ (pc = "raise" /\ exc = "PersistenceError") =>
        /\ graph = G /\ out = NoOut
  /\ (pc = "raise" /\ InSync(pre.graph, pre.file) /\ ~InSync(graph, file)) =>
        exc = "PersistenceError"

\* C20: an add_output or add_input call that is rejected leaves the Graph and
\* the URL map as they were.
C20_RejectedRegistration ==
  [][(out'.op \in {"add_output", "add_input"} /\ out'.kind = "error")
       => (graph' = graph /\ url_map' = url_map)]_vars

\* every node of g is still indexed in h under its name, with the same name
\* and the same role
NodesKept(g, h) ==
  \A i \in 1..Len(g.nodes) :
    LET j == Lookup(h.nodes, g.nodes[i].key)
    IN /\ j # 0
       /\ h.heap[j].name = g.heap[g.nodes[i].ref].name
       /\ h.heap[j].role = g.heap[g.nodes[i].ref].role

\* every field a node has in g it still has in h, and any two of them stand
\* in h in the order they had in g
FieldOrderKept(g, h) ==
  \A i \in 1..Len(g.nodes) :
    LET old == g.heap[g.nodes[i].ref].fields
        j == Lookup(h.nodes, g.nodes[i].key)
        new == IF j = 0 THEN <<>> ELSE h.heap[j].fields
        pos(f) == CHOOSE m \in 1..Len(new) : new[m] = f
    IN /\ \A k \in 1..Len(old) : \E m \in 1..Len(new) : new[m] = old[k]
       /\ \A k, l \in 1..Len(old) : k < l => pos(old[k]) < pos(old[l])

\* C19: within one process (every step but a restart, which is the only step
\* that ends with the result of __init__), each step of a command, successful
\* or failed, and each registration keeps every node of the Graph in the node
\* index under the same name with the same role, and keeps the fields a
\* datastore already has in their relative order; so a node once created is
\* there after every later command, and appended fields never reorder the
\* earlier ones.
C19_NodesAndFieldOrderKept ==
  [][(out'.op # "init") => (NodesKept(graph, graph') /\ FieldOrderKept(graph, graph'))]_vars

\* a third field has been appended to a datastore that had two, the request
\* has returned, and later commands (one of them failed) have been handled
C19_Witness ==
  /\ pc = "idle" /\ out.op = "fn" /\ out.kind = "error"
  /\ HasKey(graph.datastores, "b")
  /\ Len(graph.heap[Lookup(graph.datastores, "b")].fields) = 3
  /\ graph.heap[Lookup(graph.datastores, "b")].fields[3].name = "f"
  /\ graph.heap[Lookup(graph.nodes, "a")].x = 1

\* both workers' handlers stand between line 37 and their return
BothInFlight == pc # "idle" /\ other.pc # "idle"

====
